---- MODULE Spec2Model ----
(***************************************************************************)
(* A model of spotlightDlGo (src/main.go): the poll loop of main, the      *)
(* Fetcher/Parser fetchOnce, the Deduplicator dedupe and the Downloader    *)
(* download, over a small file system.                                     *)
(*                                                                         *)
(* Strings are sequences of one-character strings, so that the string      *)
(* functions of the program (TrimSpace, HasPrefix, url.Parse,              *)
(* filepath.Base, filepath.Join, dst + ".part") are computed, not assumed. *)
(*                                                                         *)
(* Spec is the run of main. DedupeSpec and ParseSpec apply dedupe and      *)
(* fetchOnce to inputs of their own, TimeoutSpec follows one request       *)
(* against its time limits, and TermSpec is the run of main with its       *)
(* rounds counted and every call returning.                                *)
(***************************************************************************)
EXTENDS Integers, Sequences, FiniteSets, TLC

(***************************************************************************)
(* Bounds of the model.                                                    *)
(***************************************************************************)
\* longest response body, in bytes, that an image download delivers
MaxBody == 1
\* most items in one API response (the program asks for bcnt=4)
MaxItems == 2

(***************************************************************************)
(* String helpers (package strings).                                       *)
(***************************************************************************)
\* F at the value of e: e is evaluated once, however often F uses it
With(e, F(_)) == CHOOSE r \in {F(v) : v \in {e}} : TRUE

SetMin(S) == With(S, LAMBDA T : CHOOSE x \in T : \A y \in T : x <= y)
SetMax(S) == With(S, LAMBDA T : CHOOSE x \in T : \A y \in T : x >= y)

\* the indices of s that hold c
Hits(s, c) == With(s, LAMBDA v : {i \in 1..Len(v) : v[i] = c})

\* strings.IndexByte(s, c), 1-based; 0 when c does not occur
IndexByte(s, c) ==
    With(Hits(s, c), LAMBDA hits : IF hits = {} THEN 0 ELSE SetMin(hits))

LastIndexByte(s, c) ==
    With(Hits(s, c), LAMBDA hits : IF hits = {} THEN 0 ELSE SetMax(hits))

Contains(s, c) == IndexByte(s, c) > 0

HasPrefix(s, p) ==
    With(s, LAMBDA v : Len(v) >= Len(p) /\ SubSeq(v, 1, Len(p)) = p)

IsSpace(c) == c \in {" ", "\t", "\n", "\r"}

TrimSpace(s) ==
    With(s, LAMBDA v :
        With({i \in 1..Len(v) : ~IsSpace(v[i])}, LAMBDA keep :
            IF keep = {} THEN <<>>
            ELSE SubSeq(v, SetMin(keep), SetMax(keep))))

\* s[from:] in Go terms, with a 1-based from
DropTo(s, from) == With(s, LAMBDA v : SubSeq(v, from, Len(v)))

\* s[:i] in Go terms for the 1-based index i of a byte of s; s when i = 0
Before(s, i) ==
    With(s, LAMBDA v : With(i, LAMBDA k :
        IF k = 0 THEN v ELSE SubSeq(v, 1, k - 1)))

(***************************************************************************)
(* net/url and path/filepath, as far as fileNameFromURL and main use them. *)
(***************************************************************************)
HexDigits == {"0","1","2","3","4","5","6","7","8","9",
              "a","b","c","d","e","f","A","B","C","D","E","F"}

\* the byte a %XY escape stands for; bytes outside the model's alphabet
\* are all written "*"
UnHex(x, y) ==
    CASE <<x, y>> = <<"3", "F">> -> "?"
      [] <<x, y>> = <<"3", "f">> -> "?"
      [] <<x, y>> = <<"2", "F">> -> "/"
      [] <<x, y>> = <<"2", "f">> -> "/"
      [] <<x, y>> = <<"2", "E">> -> "."
      [] <<x, y>> = <<"2", "e">> -> "."
      [] <<x, y>> = <<"2", "0">> -> " "
      [] OTHER -> "*"

\* url.unescape in path mode: FALSE for a malformed escape
EscapesOk(s) ==
    With(s, LAMBDA v :
        \A i \in 1..Len(v) :
            v[i] = "%" => /\ i + 2 <= Len(v)
                          /\ v[i+1] \in HexDigits
                          /\ v[i+2] \in HexDigits)

\* url.unescape in path mode, from the 1-based index i of s on
RECURSIVE UnescapeFrom(_, _)
UnescapeFrom(s, i) ==
    IF i > Len(s) THEN <<>>
    ELSE IF s[i] = "%" /\ i + 2 <= Len(s)
         THEN <<UnHex(s[i+1], s[i+2])>> \o UnescapeFrom(s, i + 3)
         ELSE <<s[i]>> \o UnescapeFrom(s, i + 1)

Unescape(s) == With(s, LAMBDA v : UnescapeFrom(v, 1))

\* the authority and the escaped path of the part of a URL between its
\* scheme and its query
SplitAuthority(rest) ==
    With(rest, LAMBDA r :
        IF ~HasPrefix(r, <<"/", "/">>) THEN [auth |-> <<>>, rawPath |-> r]
        ELSE With(DropTo(r, 3), LAMBDA afterSl :
                With(IndexByte(afterSl, "/"), LAMBDA slash :
                    IF slash = 0 THEN [auth |-> afterSl, rawPath |-> <<>>]
                    ELSE [auth    |-> Before(afterSl, slash),
                          rawPath |-> DropTo(afterSl, slash)])))

\* url.Parse(u) for a URL with a scheme: [ok, path]. The fragment is cut at
\* the first "#", the query at the first "?" after the scheme, the authority
\* runs from "//" to the next "/", and the rest is the escaped path.
urlParse(u) ==
    With(Before(u, IndexByte(u, "#")), LAMBDA noFrag :
        With(IndexByte(noFrag, ":"), LAMBDA colon :
            With(DropTo(noFrag, colon + 1), LAMBDA rest0 :
                With(SplitAuthority(Before(rest0, IndexByte(rest0, "?"))), LAMBDA p :
                    With(/\ colon > 1
                         /\ ~Contains(p.auth, " ")
                         /\ ~Contains(p.auth, "%")
                         /\ EscapesOk(p.rawPath), LAMBDA ok :
                        [ok   |-> ok,
                         path |-> IF ok THEN Unescape(p.rawPath) ELSE <<>>])))))

\* the length of p without its trailing slashes
RECURSIVE TrimmedLen(_, _)
TrimmedLen(p, n) ==
    IF n > 0 /\ p[n] = "/" THEN TrimmedLen(p, n - 1) ELSE n

StripTrailingSlashes(p) ==
    With(p, LAMBDA v : SubSeq(v, 1, TrimmedLen(v, Len(v))))

\* filepath.Base
Base(p) ==
    With(p, LAMBDA v :
        IF v = <<>> THEN <<".">>
        ELSE With(StripTrailingSlashes(v), LAMBDA s :
                IF s = <<>> THEN <<"/">>
                ELSE DropTo(s, LastIndexByte(s, "/") + 1)))

\* the elements of a path between its slashes
RECURSIVE SplitSlash(_)
SplitSlash(p) ==
    With(p, LAMBDA v :
        With(IndexByte(v, "/"), LAMBDA i :
            IF i = 0 THEN <<v>>
            ELSE <<Before(v, i)>> \o SplitSlash(DropTo(v, i + 1))))

\* filepath.Clean's pass over the elements: "" and "." are dropped, ".."
\* removes the element before it
RECURSIVE CleanElems(_, _, _)
CleanElems(elems, rooted, acc) ==
    With(elems, LAMBDA es : With(acc, LAMBDA a :
        IF es = <<>> THEN a
        ELSE IF Head(es) = <<>> \/ Head(es) = <<".">>
             THEN CleanElems(Tail(es), rooted, a)
        ELSE IF Head(es) # <<".", ".">>
             THEN CleanElems(Tail(es), rooted, Append(a, Head(es)))
        ELSE IF a # <<>> /\ a[Len(a)] # <<".", ".">>
             THEN CleanElems(Tail(es), rooted, SubSeq(a, 1, Len(a) - 1))
        ELSE IF rooted
             THEN CleanElems(Tail(es), rooted, a)
        ELSE CleanElems(Tail(es), rooted, Append(a, Head(es)))))

RECURSIVE JoinSlash(_)
JoinSlash(elems) ==
    With(elems, LAMBDA es :
        IF es = <<>> THEN <<>>
        ELSE IF Len(es) = 1 THEN es[1]
        ELSE es[1] \o <<"/">> \o JoinSlash(Tail(es)))

\* filepath.Clean
Clean(p) ==
    With(p, LAMBDA v :
        IF v = <<>> THEN <<".">>
        ELSE With(JoinSlash(CleanElems(SplitSlash(v), v[1] = "/", <<>>)), LAMBDA body :
                IF v[1] = "/" THEN <<"/">> \o body
                ELSE IF body = <<>> THEN <<".">> ELSE body))

\* filepath.Join(dir, name)
Join(dir, name) ==
    With(dir, LAMBDA d : With(name, LAMBDA n :
        IF d = <<>> /\ n = <<>> THEN <<>>
        ELSE IF d = <<>> THEN Clean(n)
        ELSE IF n = <<>> THEN Clean(d)
        ELSE Clean(d \o <<"/">> \o n)))

DefaultExt == <<".", "j", "p", "g">>

\* lines 221-234
fileNameFromURL(u) ==
    With(urlParse(u), LAMBDA pu :
        IF ~pu.ok THEN <<>>
        ELSE With(Base(pu.path), LAMBDA base0 :
                With(Before(base0, IndexByte(base0, "?")), LAMBDA base :
                    IF ~Contains(base, ".") THEN base \o DefaultExt
                    ELSE base)))

(***************************************************************************)
(* The API's items and the Parser (fetchOnce, lines 102-123).              *)
(***************************************************************************)
Https == <<"h", "t", "t", "p", "s", ":", "/", "/">>
Http  == <<"h", "t", "t", "p", ":", "/", "/">>

\* the asset URLs the modelled API serves
UrlA    == Https \o <<"h", "/", "a", ".", "j", "p", "g">>
UrlQ    == Https \o <<"h", "/", "a", "?", "x">>
UrlPart == Https \o <<"h", "/", "a", ".", "j", "p", "g", ".", "p", "a", "r", "t">>
UrlBad  == Https \o <<"h", "/", "%">>
URLS    == {UrlA, UrlQ, UrlPart, UrlBad}

\* One inner item string: json says whether json.Unmarshal accepts it,
\* ad and landscape whether env.Ad and env.Ad.Landscape are non-nil.
Item(json, ad, landscape, asset) ==
    [json |-> json, ad |-> ad, landscape |-> landscape, asset |-> asset,
     hover |-> <<>>, title |-> <<" ", "t">>, copyright |-> <<"c">>]

LandscapeItem(u) == Item(TRUE, TRUE, TRUE, u)
MalformedItem    == Item(FALSE, FALSE, FALSE, <<>>)
PortraitItem     == Item(TRUE, TRUE, FALSE, <<>>)
InsecureItem     == LandscapeItem(Http \o <<"h", "/", "a", ".", "j", "p", "g">>)
PaddedItem       == LandscapeItem(<<" ">> \o UrlA \o <<" ">>)

ApiItems ==
    {LandscapeItem(u) : u \in URLS}
        \cup {MalformedItem, PortraitItem, InsecureItem, PaddedItem}

RECURSIVE SeqsUpTo(_, _)
SeqsUpTo(S, n) ==
    IF n = 0 THEN {<<>>}
    ELSE LET shorter == SeqsUpTo(S, n - 1)
         IN  shorter \cup {Append(q, x) : q \in {r \in shorter : Len(r) = n - 1}, x \in S}

\* the item lists of the API responses the model draws from
ApiBatches == SeqsUpTo(ApiItems, MaxItems)

\* the ways one Fetcher call fails: client.Do, status != 200, outer decode
FetchErrors == {"transport", "http status", "decode"}

firstNonEmpty(a, b) == IF TrimSpace(a) # <<>> THEN a ELSE TrimSpace(b)

\* Accepted without the scheme test of line 113
AcceptedAnyScheme(it) ==
    /\ it.json
    /\ it.ad
    /\ it.landscape
    /\ TrimSpace(it.asset) # <<>>

\* lines 109-115: whether an item yields a descriptor
Accepted(it) ==
    /\ it.json
    /\ it.ad
    /\ it.landscape
    /\ TrimSpace(it.asset) # <<>>
    /\ HasPrefix(TrimSpace(it.asset), Https)

\* lines 116-121
SpotImage(it) ==
    [URL       |-> TrimSpace(it.asset),
     FileName  |-> fileNameFromURL(TrimSpace(it.asset)),
     Title     |-> firstNonEmpty(it.hover, it.title),
     Copyright |-> it.copyright]

\* ParseItems that gives up the batch at an item that does not parse
RECURSIVE ParseItemsStrict(_)
ParseItemsStrict(its) ==
    IF its = <<>> THEN <<>>
    ELSE IF ~Head(its).json THEN <<>>
    ELSE IF Accepted(Head(its))
         THEN <<SpotImage(Head(its))>> \o ParseItemsStrict(Tail(its))
         ELSE ParseItemsStrict(Tail(its))

\* lines 102-122: the parse loop
RECURSIVE ParseItems(_)
ParseItems(its) ==
    IF its = <<>> THEN <<>>
    ELSE IF Accepted(Head(its))
         THEN <<SpotImage(Head(its))>> \o ParseItems(Tail(its))
         ELSE ParseItems(Tail(its))

RECURSIVE DedupeFrom(_, _)
DedupeFrom(ims, seenURLs) ==
    IF ims = <<>> THEN <<>>
    ELSE LET im == Head(ims)
         IN  IF im.URL = <<>> \/ im.URL \in seenURLs
             THEN DedupeFrom(Tail(ims), seenURLs)
             ELSE <<im>> \o DedupeFrom(Tail(ims), seenURLs \cup {im.URL})

\* dedupe that returns its argument
dedupeNothing(ims) == ims

\* lines 126-140
dedupe(ims) == DedupeFrom(ims, {})

\* the descriptors fetchOnce returns for a decoded response
fetchOnce(its) == dedupe(ParseItems(its))

(***************************************************************************)
(* The file system: the output directory, the destination of every file   *)
(* name the API's URLs give, and the temporary sibling of each.           *)
(***************************************************************************)
OutDir == <<"o">>

PartSuffix == <<".", "p", "a", "r", "t">>

\* TmpPath that writes in place
TmpPathInPlace(dst) == dst

\* line 164
TmpPath(dst) == dst \o PartSuffix

Names    == {fileNameFromURL(u) : u \in URLS} \ {<<>>}
DstPaths == {Join(OutDir, n) : n \in Names}
TmpPaths == {TmpPath(d) : d \in DstPaths}
AllPaths == DstPaths \cup TmpPaths \cup {OutDir}

Absent == [kind |-> "absent"]
Dir    == [kind |-> "dir"]

\* A regular file: the bytes it holds, the length of the body it was
\* written from, and the URL that body came from (<<>> for a file that
\* was in the directory before the run).
File(src, bytes, body) == [kind |-> "file", src |-> src, bytes |-> bytes, body |-> body]

OldFile == File(<<>>, 1, 1)

Complete(f) == f.kind = "file" /\ f.bytes = f.body

\* exists without the check
existsNever(files, p) == FALSE

\* lines 236-239
exists(files, p) == p \in DOMAIN files /\ files[p] # Absent

\* os.Remove
Remove(files, p) == [files EXCEPT ![p] = Absent]

\* os.Rename
Rename(files, old, new) ==
    IF old = new THEN files
    ELSE [files EXCEPT ![new] = files[old], ![old] = Absent]

\* The responses a 200 GET of an image can have: ContentLength (declared,
\* -1 when the server declares none) and the number of bytes the body
\* holds. With a declared length the body never holds more than it (the
\* contract of http.Response.ContentLength); it can hold less.
Responses ==
    {r \in [declared : {-1} \cup 1..(MaxBody + 1), body : 1..MaxBody] :
        r.declared >= 0 => r.body <= r.declared}

NoResponse == [declared |-> -1, body |-> 0]

(***************************************************************************)
(* The program's state.                                                    *)
(***************************************************************************)
VARIABLES
    pc,           \* where main (or the download it called) stands
    fs,           \* the file system: path -> Absent, Dir or a file
    seen,         \* main's seen map, as the set of its keys
    emptyRounds,  \* main's emptyRounds
    totalNew,     \* main's totalNew
    newInRound,   \* main's newInRound
    imgs,         \* the descriptors of the batch not yet processed
    dl,           \* the frame of the download call in progress
    ret,          \* the error download returned ("nil" for none)
    exitCode,     \* the process's exit status, -1 while it runs
    stdout,       \* the destination paths printed (line 293)
    summary,      \* the count of the "done." line (printed when -v), -1 before
    fs0,          \* history: the files the run started with
    fetchCalls,   \* history: Fetcher calls since the last successful download
    fetchErr,     \* history: the error a Fetcher call returned
    dlCalls,      \* history: Downloader calls per source URL
    okInRound,    \* history: Downloader calls of this round that returned nil
    okCalls,      \* history: Downloader calls of the run that returned nil
    items,        \* the inner item strings of the response fetchOnce parses
    in,           \* dedupe's argument
    out,          \* dedupe's result
    now,          \* seconds since the request in progress was sent
    rounds        \* history: Fetcher calls of the run

vars == <<pc, fs, seen, emptyRounds, totalNew, newInRound, imgs, dl,
          ret, exitCode, stdout, summary, fs0, fetchCalls, fetchErr, dlCalls,
          okInRound, okCalls, items, in, out, now, rounds>>

\* the variables of the specifications of single functions below; the
\* run of main leaves them alone
auxVars == <<items, in, out, now, rounds>>

mainVars == <<seen, emptyRounds, totalNew, newInRound, imgs>>
outVars  == <<exitCode, stdout, summary>>
histVars == <<fs0, fetchCalls, fetchErr, dlCalls, okInRound, okCalls>>

\* line 260
maxEmptyRounds == 50

NoDl == [src |-> <<>>, dst |-> <<>>, resp |-> NoResponse]

FilePaths == DstPaths \cup TmpPaths

\* the directories a run can start in: no output directory yet, or one
\* holding complete files of earlier runs under some destination names
InitialFileSystems ==
    {[p \in AllPaths |-> Absent]}
        \cup {[p \in AllPaths |->
                  IF p = OutDir THEN Dir
                  ELSE IF p \in have THEN OldFile ELSE Absent] :
              have \in (SUBSET DstPaths) \ {{}}}

Init ==
    /\ pc = "start"
    /\ fs \in InitialFileSystems
    /\ fs0 = [p \in FilePaths |-> fs[p]]
    /\ seen = {}
    /\ emptyRounds = 0
    /\ totalNew = 0
    /\ newInRound = 0
    /\ imgs = <<>>
    /\ dl = NoDl
    /\ ret = ""
    /\ exitCode = -1
    /\ stdout = <<>>
    /\ summary = -1
    /\ fetchCalls = 0
    /\ fetchErr = ""
    /\ dlCalls = [u \in URLS |-> 0]
    /\ okInRound = 0
    /\ okCalls = 0
    /\ items = <<>>
    /\ in = <<>>
    /\ out = <<>>
    /\ now = 0
    /\ rounds = 0

(***************************************************************************)
(* main, lines 245-308.                                                    *)
(***************************************************************************)
\* lines 251-261: os.MkdirAll succeeds
MkdirOk ==
    /\ pc = "start"
    /\ fs' = [fs EXCEPT ![OutDir] = Dir]
    /\ pc' = "loop"
    /\ UNCHANGED <<auxVars, mainVars, dl, ret, outVars, histVars>>

\* lines 251-253: os.MkdirAll fails, fatal
MkdirFail ==
    /\ pc = "start"
    /\ pc' = "fatal"
    /\ exitCode' = 1
    /\ UNCHANGED <<auxVars, fs, mainVars, dl, ret, stdout, summary, histVars>>

\* LoopCond with the comparison off by one
LoopCondInclusive(n) == n <= maxEmptyRounds

\* line 263: the loop condition
LoopCond(n) == n < maxEmptyRounds

\* what the Fetcher can return: fetchOnce of every response of the API
FetchResults == {fetchOnce(its) : its \in ApiBatches}

\* lines 264-269: the Fetcher returns a batch
FetchOkStep ==
    /\ pc = "loop"
    /\ LoopCond(emptyRounds)
    /\ imgs' \in FetchResults
    /\ newInRound' = 0
    /\ pc' = "batch"
    /\ fetchCalls' = fetchCalls + 1
    /\ okInRound' = 0
    /\ UNCHANGED <<fs, seen, emptyRounds, totalNew, dl, ret, outVars,
                   fs0, fetchErr, dlCalls, okCalls>>

FetchOk == FetchOkStep /\ UNCHANGED auxVars

\* FetchFail with the error logged and the round treated as empty
FetchFailIgnored ==
    /\ pc = "loop"
    /\ LoopCond(emptyRounds)
    /\ \E e \in FetchErrors : fetchErr' = e
    /\ fetchCalls' = fetchCalls + 1
    /\ imgs' = <<>>
    /\ newInRound' = 0
    /\ okInRound' = 0
    /\ pc' = "batch"
    /\ UNCHANGED <<auxVars, fs, seen, emptyRounds, totalNew, dl, ret, outVars, fs0,
                   dlCalls, okCalls>>

\* lines 264-267 and 241-244: the Fetcher returns an error, fatal
FetchFailStep ==
    /\ pc = "loop"
    /\ LoopCond(emptyRounds)
    /\ \E e \in FetchErrors : fetchErr' = e
    /\ fetchCalls' = fetchCalls + 1
    /\ pc' = "fatal"
    /\ exitCode' = 1
    /\ UNCHANGED <<fs, mainVars, dl, ret, stdout, summary, fs0,
                   dlCalls, okInRound, okCalls>>

FetchFail == FetchFailStep /\ UNCHANGED auxVars

\* lines 263, 306-308: the loop ends and main returns; the "done." line is
\* printed under the -v flag, which no other step of the model reads
LoopExit ==
    /\ pc = "loop"
    /\ ~LoopCond(emptyRounds)
    /\ pc' = "done"
    /\ exitCode' = 0
    /\ \E verbose \in BOOLEAN : summary' = IF verbose THEN totalNew ELSE -1
    /\ UNCHANGED <<auxVars, fs, mainVars, dl, ret, stdout, histVars>>

\* MarkSeen that records nothing
MarkSeenForgets(s, u) == s

\* line 274
MarkSeen(s, u) == s \cup {u}

\* line 276, tabulated over the model's URLs
NameOf == [u \in URLS |-> fileNameFromURL(u)]

\* line 280
DestPath(u) == Join(OutDir, fileNameFromURL(u))

\* line 280, tabulated over the model's URLs
DestOf == [u \in URLS |-> DestPath(u)]

\* line 164, tabulated over the model's destinations
TmpOf == [d \in DstPaths |-> TmpPath(d)]

\* lines 271-273: the URL is in seen
SkipSeen ==
    /\ pc = "batch"
    /\ imgs # <<>>
    /\ Head(imgs).URL \in seen
    /\ imgs' = Tail(imgs)
    /\ UNCHANGED <<auxVars, pc, fs, seen, emptyRounds, totalNew, newInRound,
                   dl, ret, outVars, histVars>>

\* lines 274-279: no file name
SkipNoName ==
    /\ pc = "batch"
    /\ imgs # <<>>
    /\ Head(imgs).URL \notin seen
    /\ seen' = MarkSeen(seen, Head(imgs).URL)
    /\ NameOf[Head(imgs).URL] = <<>>
    /\ imgs' = Tail(imgs)
    /\ UNCHANGED <<auxVars, pc, fs, emptyRounds, totalNew, newInRound,
                   dl, ret, outVars, histVars>>

\* lines 274-286: the destination exists
SkipExisting ==
    /\ pc = "batch"
    /\ imgs # <<>>
    /\ Head(imgs).URL \notin seen
    /\ seen' = MarkSeen(seen, Head(imgs).URL)
    /\ NameOf[Head(imgs).URL] # <<>>
    /\ exists(fs, DestOf[Head(imgs).URL])
    /\ imgs' = Tail(imgs)
    /\ UNCHANGED <<auxVars, pc, fs, emptyRounds, totalNew, newInRound,
                   dl, ret, outVars, histVars>>

\* lines 274-287: download is called
StartDownload ==
    /\ pc = "batch"
    /\ imgs # <<>>
    /\ Head(imgs).URL \notin seen
    /\ seen' = MarkSeen(seen, Head(imgs).URL)
    /\ NameOf[Head(imgs).URL] # <<>>
    /\ ~exists(fs, DestOf[Head(imgs).URL])
    /\ dl' = [src |-> Head(imgs).URL, dst |-> DestOf[Head(imgs).URL],
              resp |-> NoResponse]
    /\ dlCalls' = [dlCalls EXCEPT ![Head(imgs).URL] = @ + 1]
    /\ imgs' = Tail(imgs)
    /\ pc' = "dl_do"
    /\ UNCHANGED <<auxVars, fs, emptyRounds, totalNew, newInRound, ret,
                   outVars, fs0, fetchCalls, fetchErr, okInRound, okCalls>>

\* OnDownloadError with the error treated like a Fetcher error
OnDownloadErrorFatal ==
    /\ pc = "dl_ret"
    /\ ret # "nil"
    /\ pc' = "fatal"
    /\ exitCode' = 1
    /\ UNCHANGED <<auxVars, fs, mainVars, dl, ret, stdout, summary, histVars>>

\* lines 287-292: download returned an error
OnDownloadError ==
    /\ pc = "dl_ret"
    /\ ret # "nil"
    /\ pc' = "batch"
    /\ dl' = NoDl
    /\ ret' = ""
    /\ UNCHANGED <<auxVars, fs, mainVars, outVars, histVars>>

\* OnDownloadOk without the count of line 295
OnDownloadOkUncounted ==
    /\ pc = "dl_ret"
    /\ ret = "nil"
    /\ stdout' = Append(stdout, dl.dst)
    /\ newInRound' = newInRound + 1
    /\ pc' = "batch"
    /\ dl' = NoDl
    /\ ret' = ""
    /\ UNCHANGED <<auxVars, fs, seen, emptyRounds, totalNew, imgs, exitCode,
                   summary, histVars>>

\* lines 287, 293-295: download returned nil
OnDownloadOk ==
    /\ pc = "dl_ret"
    /\ ret = "nil"
    /\ stdout' = Append(stdout, dl.dst)
    /\ newInRound' = newInRound + 1
    /\ totalNew' = totalNew + 1
    /\ pc' = "batch"
    /\ dl' = NoDl
    /\ ret' = ""
    /\ UNCHANGED <<auxVars, fs, seen, emptyRounds, imgs, exitCode, summary,
                   histVars>>

\* NextEmptyRounds that never counts an empty round
NextEmptyRoundsStuck(n, new) == 0

\* NextEmptyRounds without the reset of line 302
NextEmptyRoundsNoReset(n, new) == n + 1

\* lines 298-303
NextEmptyRounds(n, new) == IF new = 0 THEN n + 1 ELSE 0

\* lines 296-304: the batch is processed, the round ends
EndRound ==
    /\ pc = "batch"
    /\ imgs = <<>>
    /\ emptyRounds' = NextEmptyRounds(emptyRounds, newInRound)
    /\ pc' = "loop"
    /\ UNCHANGED <<auxVars, fs, seen, totalNew, newInRound, imgs, dl, ret,
                   outVars, histVars>>

(***************************************************************************)
(* download, lines 142-192.                                                *)
(***************************************************************************)
\* lines 159-162: expected is set
HasExpected(r) == r.declared > 0

\* SizeOk without the comparison
SizeOkAlways(size, r) == TRUE

\* line 186
SizeOk(size, r) == size = r.declared

Return(e) ==
    /\ ret' = e
    /\ pc' = "dl_ret"

\* lines 145-153: NewRequestWithContext or client.Do returns an error
DlDoError ==
    /\ pc = "dl_do"
    /\ Return("transport")
    /\ UNCHANGED <<auxVars, fs, mainVars, dl, outVars, histVars>>

\* lines 150-157: a response with a status other than 200
DlBadStatus ==
    /\ pc = "dl_do"
    /\ Return("http status")
    /\ UNCHANGED <<auxVars, fs, mainVars, dl, outVars, histVars>>

\* lines 150-168: a 200 response, and os.Create fails
DlCreateFail ==
    /\ pc = "dl_do"
    /\ Return("create")
    /\ UNCHANGED <<auxVars, fs, mainVars, dl, outVars, histVars>>

\* lines 150-165: a 200 response, and os.Create creates or truncates the
\* temporary file
DlCreateOk ==
    /\ pc = "dl_do"
    /\ \E r \in Responses :
        /\ dl' = [dl EXCEPT !.resp = r]
        /\ fs' = [fs EXCEPT ![TmpOf[dl.dst]] = File(dl.src, 0, r.body)]
    /\ pc' = "dl_copy"
    /\ UNCHANGED <<auxVars, mainVars, ret, outVars, histVars>>

\* line 169: io.Copy writes the next byte of the body
DlWrite ==
    /\ pc = "dl_copy"
    /\ fs[TmpOf[dl.dst]].bytes < dl.resp.body
    /\ fs' = [fs EXCEPT ![TmpOf[dl.dst]].bytes = @ + 1]
    /\ UNCHANGED <<auxVars, pc, mainVars, dl, ret, outVars, histVars>>

\* lines 169-174: io.Copy returns an error (a read of the body or a write
\* of the file fails), after any number of bytes
DlCopyFailed ==
    /\ pc = "dl_copy"
    /\ fs' = Remove(fs, TmpOf[dl.dst])
    /\ Return("copy")
    /\ UNCHANGED <<auxVars, mainVars, dl, outVars, histVars>>

\* lines 169-171: io.Copy has read the body to its end and returned nil
Copied == pc = "dl_copy" /\ fs[TmpOf[dl.dst]].bytes = dl.resp.body

\* lines 175-178: the close failed
DlCloseFailed ==
    /\ Copied
    /\ fs' = Remove(fs, TmpOf[dl.dst])
    /\ Return("close")
    /\ UNCHANGED <<auxVars, mainVars, dl, outVars, histVars>>

\* lines 180-185: os.Stat fails
DlStatFailed ==
    /\ Copied
    /\ HasExpected(dl.resp)
    /\ fs' = Remove(fs, TmpOf[dl.dst])
    /\ Return("stat")
    /\ UNCHANGED <<auxVars, mainVars, dl, outVars, histVars>>

\* DlSizeMismatch without the os.Remove of line 187
DlSizeMismatchKeepsTemp ==
    /\ pc = "dl_copy"
    /\ fs[TmpOf[dl.dst]].bytes = dl.resp.body
    /\ HasExpected(dl.resp)
    /\ ~SizeOk(fs[TmpOf[dl.dst]].bytes, dl.resp)
    /\ ret' = "size mismatch"
    /\ pc' = "dl_ret"
    /\ UNCHANGED <<auxVars, fs, mainVars, dl, outVars, histVars>>

\* lines 186-189
DlSizeMismatch ==
    /\ Copied
    /\ HasExpected(dl.resp)
    /\ ~SizeOk(fs[TmpOf[dl.dst]].bytes, dl.resp)
    /\ fs' = Remove(fs, TmpOf[dl.dst])
    /\ Return("size mismatch")
    /\ UNCHANGED <<auxVars, mainVars, dl, outVars, histVars>>

\* line 191 is reached
Verified ==
    /\ Copied
    /\ HasExpected(dl.resp) => SizeOk(fs[TmpOf[dl.dst]].bytes, dl.resp)

\* line 191: os.Rename fails
DlRenameFail ==
    /\ Verified
    /\ Return("rename")
    /\ UNCHANGED <<auxVars, fs, mainVars, dl, outVars, histVars>>

\* line 191: os.Rename succeeds
DlRenameOk ==
    /\ Verified
    /\ fs' = Rename(fs, TmpOf[dl.dst], dl.dst)
    /\ Return("nil")
    /\ okInRound' = okInRound + 1
    /\ okCalls' = okCalls + 1
    /\ fetchCalls' = 0
    /\ UNCHANGED <<auxVars, mainVars, dl, outVars, fs0, fetchErr, dlCalls>>

Next ==
    \/ MkdirOk
    \/ MkdirFail
    \/ FetchOk
    \/ FetchFail
    \/ LoopExit
    \/ SkipSeen
    \/ SkipNoName
    \/ SkipExisting
    \/ StartDownload
    \/ OnDownloadError
    \/ OnDownloadOk
    \/ EndRound
    \/ DlDoError
    \/ DlBadStatus
    \/ DlCreateFail
    \/ DlCreateOk
    \/ DlWrite
    \/ DlCopyFailed
    \/ DlCloseFailed
    \/ DlStatFailed
    \/ DlSizeMismatch
    \/ DlRenameFail
    \/ DlRenameOk

Spec == Init /\ [][Next]_vars

(***************************************************************************)
(* The run of main with its rounds counted, under the assumption that      *)
(* every call returns: no step that is possible stays undone for ever.     *)
(* The run starts in a directory in which an earlier run has left the      *)
(* image of UrlA.                                                          *)
(***************************************************************************)
TermInit ==
    /\ Init
    /\ fs[OutDir] = Dir
    /\ {d \in DstPaths : fs[d] # Absent} = {DestPath(UrlA)}

\* FetchOk and FetchFail, with the call counted in rounds
FetchOkCounted ==
    /\ FetchOkStep
    /\ rounds' = rounds + 1
    /\ UNCHANGED <<items, in, out, now>>

FetchFailCounted ==
    /\ FetchFailStep
    /\ rounds' = rounds + 1
    /\ UNCHANGED <<items, in, out, now>>

TermNext ==
    \/ MkdirOk
    \/ MkdirFail
    \/ FetchOkCounted
    \/ FetchFailCounted
    \/ LoopExit
    \/ SkipSeen
    \/ SkipNoName
    \/ SkipExisting
    \/ StartDownload
    \/ OnDownloadError
    \/ OnDownloadOk
    \/ EndRound
    \/ DlDoError
    \/ DlBadStatus
    \/ DlCreateFail
    \/ DlCreateOk
    \/ DlWrite
    \/ DlCopyFailed
    \/ DlCloseFailed
    \/ DlStatFailed
    \/ DlSizeMismatch
    \/ DlRenameFail
    \/ DlRenameOk

TermSpec == TermInit /\ [][TermNext]_vars /\ WF_vars(TermNext)

(***************************************************************************)
(* dedupe on its own (lines 126-140), applied to descriptor lists that     *)
(* fetchOnce's filter would not let through: empty URLs, and repeats that  *)
(* differ in their title.                                                  *)
(***************************************************************************)
\* the variables of the run of main other than pc
runVars == <<fs, mainVars, dl, ret, outVars, histVars>>

\* no run of main: its variables stay at their values before line 245
NoRun ==
    /\ fs = [p \in AllPaths |-> Absent]
    /\ fs0 = [p \in FilePaths |-> Absent]
    /\ seen = {}
    /\ emptyRounds = 0
    /\ totalNew = 0
    /\ newInRound = 0
    /\ imgs = <<>>
    /\ dl = NoDl
    /\ ret = ""
    /\ exitCode = -1
    /\ stdout = <<>>
    /\ summary = -1
    /\ fetchCalls = 0
    /\ fetchErr = ""
    /\ dlCalls = [u \in URLS |-> 0]
    /\ okInRound = 0
    /\ okCalls = 0

\* a spotImage with the given URL and title
Img(url, title) ==
    [URL |-> url, FileName |-> <<>>, Title |-> title, Copyright |-> <<>>]

DedupeImgs ==
    {Img(u, t) : u \in {<<>>, UrlA, UrlQ}, t \in {<<"1">>, <<"2">>}}

DedupeInputs == SeqsUpTo(DedupeImgs, MaxItems + 1)

DedupeInit ==
    /\ pc = "dedupe"
    /\ in \in DedupeInputs
    /\ out = <<>>
    /\ items = <<>>
    /\ now = 0
    /\ rounds = 0
    /\ NoRun

\* lines 126-140: dedupe(in)
Dedupe ==
    /\ pc = "dedupe"
    /\ out' = dedupe(in)
    /\ pc' = "deduped"
    /\ UNCHANGED <<in, items, now, rounds, runVars>>

\* dedupe applied to its own result
DedupeAgain ==
    /\ pc = "deduped"
    /\ in' = out
    /\ out' = dedupe(out)
    /\ pc' = "deduped twice"
    /\ UNCHANGED <<items, now, rounds, runVars>>

DedupeNext == Dedupe \/ DedupeAgain

DedupeSpec == DedupeInit /\ [][DedupeNext]_vars

(***************************************************************************)
(* fetchOnce on its own (lines 97-123): the decoding of the response and   *)
(* the parse loop, over more kinds of items than the run of main above is  *)
(* given.                                                                  *)
(***************************************************************************)
\* the asset of the spec's scenario, https://example.com/img123.jpg?foo=1
UrlExample ==
    Https \o <<"e", "x", "a", "m", "p", "l", "e", ".", "c", "o", "m", "/",
               "i", "m", "g", "1", "2", "3", ".", "j", "p", "g",
               "?", "f", "o", "o", "=", "1">>
UrlNoPath  == Https \o <<"h">>
UrlSlash   == Https \o <<"h", "/", "a", "/">>
UrlEscaped == Https \o <<"h", "/", "a", "%", "3", "F", "b", ".", "j", "p", "g">>

\* an envelope without an ad object
NoAdItem         == Item(TRUE, FALSE, FALSE, <<>>)
\* assets that line 113 rejects
BlankAssetItem   == LandscapeItem(<<" ">>)
RelativeItem     == LandscapeItem(<<"/", "a", ".", "j", "p", "g">>)
\* iconHoverText and title as the API may send them
PaddedHoverItem  == [LandscapeItem(UrlQ) EXCEPT !.hover = <<" ", "h", " ">>]
BlankHoverItem   == [LandscapeItem(UrlPart) EXCEPT !.hover = <<" ">>]
UntitledItem     ==
    [LandscapeItem(UrlExample) EXCEPT !.title = <<>>, !.copyright = <<>>]

ParseItemKinds ==
    ApiItems \cup
        {NoAdItem, BlankAssetItem, RelativeItem, PaddedHoverItem,
         BlankHoverItem, UntitledItem, LandscapeItem(UrlExample),
         LandscapeItem(UrlNoPath), LandscapeItem(UrlSlash),
         LandscapeItem(UrlEscaped)}

ParseBatches == SeqsUpTo(ParseItemKinds, MaxItems)

ParseInit ==
    /\ pc = "fetch"
    /\ items \in ParseBatches
    /\ in = <<>>
    /\ out = <<>>
    /\ now = 0
    /\ rounds = 0
    /\ NoRun

\* lines 97-100: the response does not decode
DecodeFail ==
    /\ pc = "fetch"
    /\ fetchErr' = "decode"
    /\ pc' = "fetch failed"
    /\ UNCHANGED <<auxVars, fs, mainVars, dl, ret, outVars, fs0, fetchCalls,
                   dlCalls, okInRound, okCalls>>

\* lines 97-123: the response decodes, its items are parsed
Parse ==
    /\ pc = "fetch"
    /\ imgs' = fetchOnce(items)
    /\ pc' = "fetched"
    /\ UNCHANGED <<auxVars, fs, seen, emptyRounds, totalNew, newInRound, dl,
                   ret, outVars, histVars>>

ParseNext == DecodeFail \/ Parse

ParseSpec == ParseInit /\ [][ParseNext]_vars

(***************************************************************************)
(* The time limits of one request: the context of fetchOnce (line 78) or   *)
(* of download (line 143), and the Timeout of the http.Client that main    *)
(* creates (line 256) and hands to both. now counts the seconds since the  *)
(* request was sent. A request is cancelled when its context expires, and  *)
(* when the client's Timeout, which covers the reading of the body, has    *)
(* passed.                                                                 *)
(***************************************************************************)
\* line 78: context.WithTimeout(..., 20*time.Second)
fetchContextTimeout == 20
\* line 143: context.WithTimeout(..., 60*time.Second)
downloadContextTimeout == 60
\* line 256: http.Client{Timeout: 20 * time.Second}
clientTimeout == 20

Min(a, b) == IF a <= b THEN a ELSE b

\* whether pc stands in fetchOnce; otherwise it stands in download
InFetch(p) == p \in {"fetch_do", "fetch_read", "fetch_ret"}

\* the second at which the request at p is cancelled
Deadline(p) ==
    Min(IF InFetch(p) THEN fetchContextTimeout ELSE downloadContextTimeout,
        clientTimeout)

\* the positions with a request in progress: in client.Do, and reading the
\* body
InProgress == {"fetch_do", "fetch_read", "dl_do", "dl_read"}

TimeoutInit ==
    /\ pc \in {"fetch_do", "dl_do"}
    /\ now = 0
    /\ items = <<>>
    /\ in = <<>>
    /\ out = <<>>
    /\ rounds = 0
    /\ NoRun

\* a second passes while the request is in progress
Tick ==
    /\ pc \in InProgress
    /\ now < Deadline(pc)
    /\ now' = now + 1
    /\ UNCHANGED <<pc, items, in, out, rounds, runVars>>

\* lines 88 and 150: client.Do returns the response
ResponseArrives ==
    /\ pc \in {"fetch_do", "dl_do"}
    /\ pc' = IF InFetch(pc) THEN "fetch_read" ELSE "dl_read"
    /\ UNCHANGED <<auxVars, runVars>>

\* lines 98 and 169: the body is read to its end
BodyRead ==
    /\ pc \in {"fetch_read", "dl_read"}
    /\ pc' = IF InFetch(pc) THEN "fetch_ret" ELSE "dl_ret"
    /\ ret' = "nil"
    /\ UNCHANGED <<auxVars, fs, mainVars, dl, outVars, histVars>>

\* lines 88-91, 98-100, 150-153, 169-174: the request is cancelled at its
\* deadline and the call returns the error
TimesOut ==
    /\ pc \in InProgress
    /\ now >= Deadline(pc)
    /\ pc' = IF InFetch(pc) THEN "fetch_ret" ELSE "dl_ret"
    /\ ret' = "timeout"
    /\ UNCHANGED <<auxVars, fs, mainVars, dl, outVars, histVars>>

TimeoutNext == Tick \/ ResponseArrives \/ BodyRead \/ TimesOut

TimeoutSpec == TimeoutInit /\ [][TimeoutNext]_vars

(***************************************************************************)
(* The claims.                                                             *)
(***************************************************************************)
\* the positions of main inside a call of download
DlPcs == {"dl_do", "dl_copy", "dl_ret"}

\* C1: in a run without a successful download every round is empty, so the
\* Fetcher is never called more than 50 times, and when main returns it
\* has been called exactly 50 times and the exit status is 0.
C1_StoppingRule ==
    okCalls = 0 =>
        /\ fetchCalls <= 50
        /\ pc = "done" => fetchCalls = 50 /\ exitCode = 0 /\ fetchErr = ""

C1_Witness == pc = "done" /\ okCalls = 0 /\ fetchCalls = 50 /\ seen = URLS

\* C2: emptyRounds starts at 0 and stays within 0..50; the end of a round
\* adds exactly 1 to it when no download of the round returned nil and sets
\* it to 0 otherwise, and no other step changes it; main returns only after
\* 50 Fetcher calls without a successful download since, and the Fetcher is
\* never called with the counter at 50.
C2_EmptyRoundCounter ==
    /\ [](emptyRounds \in 0..50)
    /\ [](pc = "start" => emptyRounds = 0)
    /\ [](pc = "done" => emptyRounds = 50 /\ fetchCalls = 50)
    /\ [][/\ (pc = "batch" /\ pc' = "loop") =>
                emptyRounds' = IF okInRound = 0 THEN emptyRounds + 1 ELSE 0
          /\ ~(pc = "batch" /\ pc' = "loop") => emptyRounds' = emptyRounds
          /\ fetchCalls' = fetchCalls + 1 => emptyRounds < 50]_vars

C2_Witness ==
    pc = "loop" /\ emptyRounds = 0 /\ okInRound = 1 /\ UrlBad \in seen
        /\ Len(stdout) = 2

\* C3: once a Fetcher call has returned an error the process has exited
\* with status 1, and nothing happens any more: no Fetcher call, no
\* Downloader call, no change of a file, no normal completion.
C3_FetcherFailureFatal ==
    /\ [](fetchErr # "" => pc = "fatal" /\ exitCode = 1)
    /\ [][fetchErr # "" => UNCHANGED <<fs, fetchCalls, dlCalls, pc, exitCode>>]_vars
    /\ [][fetchErr' # fetchErr => pc' = "fatal" /\ exitCode' = 1 /\ fs' = fs]_vars

C3_Witness == fetchErr = "decode" /\ pc = "fatal" /\ okCalls = 1 /\ fetchCalls > 1

\* C4: when download returns an error main goes on with the batch: it
\* keeps the descriptors not yet processed, counts nothing and does not
\* exit; every step on a non-empty batch takes the descriptor at its head;
\* and the process exits with status 1 only after a Fetcher error or before
\* the first round.
C4_DownloaderFailureNonFatal ==
    /\ [][(pc = "dl_ret" /\ ret # "nil") =>
              /\ pc' = "batch"
              /\ imgs' = imgs
              /\ newInRound' = newInRound
              /\ totalNew' = totalNew
              /\ stdout' = stdout
              /\ exitCode' = -1]_vars
    /\ [][(pc = "batch" /\ imgs # <<>>) => imgs' = Tail(imgs)]_vars
    /\ [](pc = "fatal" => fetchErr # "" \/ (seen = {} /\ fetchCalls = 0))

\* a failed download with a descriptor of the same batch still to come
C4_Witness ==
    pc = "dl_ret" /\ ret = "size mismatch" /\ imgs # <<>> /\ okInRound = 0

\* C5: download is called only for a destination that does not exist; and
\* in a run that starts with the file of every destination name in place
\* download is never called, no file changes, and main returns after 50
\* Fetcher calls with status 0.
C5_ExistingFileSkip ==
    /\ [][dlCalls' # dlCalls => fs[dl'.dst] = Absent]_vars
    /\ []((\A d \in DstPaths : fs0[d] # Absent) =>
              /\ \A u \in URLS : dlCalls[u] = 0
              /\ \A p \in FilePaths : fs[p] = fs0[p]
              /\ okCalls = 0
              /\ pc = "done" => fetchCalls = 50 /\ exitCode = 0)

C5_Witness ==
    /\ \A d \in DstPaths : fs0[d] # Absent
    /\ pc = "done"
    /\ seen = URLS

\* C6: seen starts empty and only grows, by one URL at a time; a step that
\* takes a descriptor from the batch leaves its URL in seen, whether it
\* skips it (no name, existing file) or calls download; and download is
\* called at most once for each URL.
C6_CrossBatchDedup ==
    /\ [](pc = "start" => seen = {})
    /\ [][/\ seen \subseteq seen'
          /\ seen' # seen => \E u \in URLS \ seen : seen' = seen \cup {u}
          /\ (pc = "batch" /\ imgs # <<>> /\ imgs' = Tail(imgs)) =>
                Head(imgs).URL \in seen'
          /\ dlCalls' # dlCalls =>
                /\ dl'.src \notin seen
                /\ dl'.src \in seen'
                /\ dlCalls' = [dlCalls EXCEPT ![dl'.src] = 1]]_vars
    /\ [](\A u \in URLS : dlCalls[u] <= 1)

\* a URL whose download failed is returned again, and skipped
C6_Witness ==
    /\ pc = "batch"
    /\ imgs # <<>>
    /\ Head(imgs).URL = UrlA
    /\ UrlA \in seen
    /\ dlCalls[UrlA] = 1
    /\ fs[DestOf[UrlA]] = Absent
    /\ emptyRounds > 0

\* C7: while download runs, and when it returns, its destination either
\* does not exist or holds the whole body of the response; the destination
\* changes only in the step that returns nil, where it receives the
\* temporary file, which is complete and of the declared length if one was
\* declared; every other write goes to the temporary file.
C7_DestinationAtomicity ==
    /\ [](pc \in DlPcs =>
            \/ fs[dl.dst] = Absent
            \/ /\ fs[dl.dst] = File(dl.src, dl.resp.body, dl.resp.body)
               /\ pc = "dl_ret"
               /\ ret = "nil")
    /\ [][(pc \in DlPcs) =>
            /\ \A p \in DOMAIN fs :
                 fs'[p] # fs[p] => p \in {dl.dst, dl.dst \o PartSuffix}
            /\ fs'[dl.dst] # fs[dl.dst] =>
                 /\ ret' = "nil"
                 /\ fs'[dl.dst] = fs[dl.dst \o PartSuffix]
                 /\ Complete(fs'[dl.dst])
                 /\ (dl.resp.declared > 0 =>
                        fs'[dl.dst].bytes = dl.resp.declared)
         ]_vars

\* the temporary file holds a part of the body, the destination nothing
C7_Witness ==
    /\ pc = "dl_copy"
    /\ fs[dl.dst \o PartSuffix].kind = "file"
    /\ fs[dl.dst \o PartSuffix].bytes < fs[dl.dst \o PartSuffix].body
    /\ fs[dl.dst] = Absent

\* C8: when download has returned an error, the temporary path holds no
\* file that this call wrote (a file written from the call's URL), and the
\* destination does not exist.
C8_TempFileCleanup ==
    (pc = "dl_ret" /\ ret # "nil") =>
        /\ ~(/\ fs[dl.dst \o PartSuffix].kind = "file"
             /\ fs[dl.dst \o PartSuffix].src = dl.src)
        /\ fs[dl.dst] = Absent

\* C9: when download has returned nil for a response that declared a
\* content length, the destination holds exactly that many bytes; whenever
\* it has returned nil the destination holds the whole body; and the stat
\* and the size comparison are made only for a declared length.
C9_SizeRoundTrip ==
    pc = "dl_ret" =>
        /\ (ret = "nil" /\ dl.resp.declared >= 0) =>
              /\ fs[dl.dst].kind = "file"
              /\ fs[dl.dst].bytes = dl.resp.declared
        /\ ret = "nil" => fs[dl.dst] = File(dl.src, dl.resp.body, dl.resp.body)
        /\ ret \in {"stat", "size mismatch"} => dl.resp.declared >= 0

C9_Witness ==
    /\ pc = "dl_ret"
    /\ ret = "nil"
    /\ dl.resp.declared = 1
    /\ fs[dl.dst].bytes = 1

\* download has returned for a response whose body is shorter than the
\* declared content length
ShortBodyReturned ==
    /\ pc = "dl_ret"
    /\ dl.resp.declared >= 0
    /\ dl.resp.body < dl.resp.declared

FirstOccurrences(s) ==
    {i \in 1..Len(s) :
        /\ s[i].URL # <<>>
        /\ \A j \in 1..(i - 1) : s[j].URL # s[i].URL}

\* the k-th smallest element of the set I of numbers
Kth(I, k) == CHOOSE i \in I : Cardinality({j \in I : j <= i}) = k

\* C11: the result of dedupe holds no two entries with the same URL and no
\* entry with an empty URL, holds every non-empty URL of the input exactly
\* once, and is the input's entries at the first occurrences of its
\* non-empty URLs, in the input's order; and dedupe of a result of dedupe
\* is that result.
C11_Deduplicator ==
    pc \in {"deduped", "deduped twice"} =>
        /\ \A i, j \in 1..Len(out) : i # j => out[i].URL # out[j].URL
        /\ \A i \in 1..Len(out) : out[i].URL # <<>>
        /\ \A i \in 1..Len(in) :
               in[i].URL # <<>> =>
                   Cardinality({k \in 1..Len(out) : out[k].URL = in[i].URL}) = 1
        /\ Len(out) = Cardinality(FirstOccurrences(in))
        /\ \A k \in 1..Len(out) : out[k] = in[Kth(FirstOccurrences(in), k)]
        /\ pc = "deduped twice" => out = in

\* a repeated URL, under another title, and an empty URL are removed
C11_Witness ==
    /\ pc = "deduped"
    /\ in = <<Img(UrlQ, <<"2">>), Img(<<>>, <<"1">>), Img(UrlQ, <<"1">>)>>
    /\ out = <<Img(UrlQ, <<"2">>)>>

\* item i of the response is an envelope with an ad, a landscape image and
\* the asset u, once trimmed
LandscapeAsset(i, u) ==
    /\ items[i].json
    /\ items[i].ad
    /\ items[i].landscape
    /\ TrimSpace(items[i].asset) = u

\* C12: every descriptor fetchOnce returns has a non-empty URL that begins
\* with "https://", and that URL is the trimmed asset of an item of the
\* response that parses and has an ad object with a landscape image; so an
\* item without an ad, without a landscape image, or with an empty,
\* relative or non-https asset yields no descriptor.
C12_LandscapeFilter ==
    pc = "fetched" =>
        \A k \in 1..Len(imgs) :
            /\ imgs[k].URL # <<>>
            /\ Len(imgs[k].URL) >= Len(Https)
            /\ SubSeq(imgs[k].URL, 1, Len(Https)) = Https
            /\ \E i \in 1..Len(items) : LandscapeAsset(i, imgs[k].URL)

\* an http asset is dropped, the https asset next to it is kept
C12_Witness ==
    /\ pc = "fetched"
    /\ items = <<InsecureItem, LandscapeItem(UrlA)>>
    /\ Len(imgs) = 1
    /\ imgs[1].URL = UrlA

\* s without its i-th element
WithoutItem(s, i) == SubSeq(s, 1, i - 1) \o SubSeq(s, i + 1, Len(s))

\* C13: a response that does not decode gives an error and no descriptor;
\* a response that decodes gives no error, and for each of its items that
\* does not parse the descriptors returned are those of the response
\* without that item, in the same order.
C13_TwoTierParseFailure ==
    /\ pc = "fetch failed" => fetchErr = "decode" /\ imgs = <<>>
    /\ pc = "fetched" =>
          /\ fetchErr = ""
          /\ \A i \in 1..Len(items) :
                 ~items[i].json => imgs = fetchOnce(WithoutItem(items, i))

\* a malformed item before a landscape item
C13_Witness ==
    /\ pc = "fetched"
    /\ items = <<MalformedItem, LandscapeItem(UrlPart)>>
    /\ Len(imgs) = 1
    /\ imgs[1].URL = UrlPart

\* The file name the claim describes for the URL u: of u up to its query
\* string, the part after the authority is the path; the name is the part
\* of the path after its last "/", with ".jpg" appended when it holds no
\* ".".
ClaimedFileName(u) ==
    LET noQuery == Before(u, IndexByte(u, "?"))
        rest    == DropTo(noQuery, Len(Https) + 1)
        slash   == IndexByte(rest, "/")
        path    == IF slash = 0 THEN <<>> ELSE DropTo(rest, slash)
        segment == DropTo(path, LastIndexByte(path, "/") + 1)
    IN  IF Contains(segment, ".") THEN segment ELSE segment \o DefaultExt

\* C14: every descriptor's file name is the final segment of the path of
\* its URL, without the query string, with ".jpg" appended exactly when the
\* segment holds no "."; and the portrait item and the landscape item with
\* asset https://example.com/img123.jpg?foo=1 give one descriptor, named
\* img123.jpg.
C14_FileNameDerivation ==
    pc = "fetched" =>
        /\ \A k \in 1..Len(imgs) :
               imgs[k].FileName = ClaimedFileName(imgs[k].URL)
        /\ items = <<PortraitItem, LandscapeItem(UrlExample)>> =>
               /\ Len(imgs) = 1
               /\ imgs[1].FileName =
                      <<"i", "m", "g", "1", "2", "3", ".", "j", "p", "g">>

\* download has returned nil and main has not yet counted it (line 287)
Pending == IF pc = "dl_ret" /\ ret = "nil" THEN 1 ELSE 0

C16_TitleSelection ==
    pc = "fetched" =>
        \A k \in 1..Len(imgs) :
            \E i \in 1..Len(items) :
                /\ LandscapeAsset(i, imgs[k].URL)
                /\ imgs[k].Title =
                       IF TrimSpace(items[i].hover) # <<>>
                       THEN TrimSpace(items[i].hover)
                       ELSE TrimSpace(items[i].title)
                /\ imgs[k].Copyright = items[i].copyright

\* C17: the temporary path of the download in progress is neither the
\* destination nor the temporary path of another destination.
C17_TempNameUniqueness ==
    pc \in DlPcs =>
        \A d \in DstPaths \ {dl.dst} :
            /\ dl.dst \o PartSuffix # d \o PartSuffix
            /\ dl.dst \o PartSuffix # d

\* C18: a download that returns for timeout does so 60 seconds or more
\* after its request was sent, and a metadata fetch 20 seconds or more.
C18_DownloadTimeout ==
    /\ (pc = "dl_ret" /\ ret = "timeout") => now >= 60
    /\ (pc = "fetch_ret" /\ ret = "timeout") => now >= 20

C20_DownloadFrame ==
    [][(pc \in DlPcs) =>
          /\ \A p \in DOMAIN fs :
                 fs'[p] # fs[p] => p \in {dl.dst, dl.dst \o PartSuffix}
          /\ \A d \in DstPaths \ {dl.dst} :
                 Complete(fs[d]) => fs'[d] = fs[d]
      ]_vars

====
